---- MODULE Spec2Model ----
(***************************************************************************)
(* Model of the telemetry acquisition core of frontend/src/App.js: the     *)
(* continuous-monitoring controller (toggleContinuousPrediction and        *)
(* makeContinuousPrediction), its interval timer, the bounded history      *)
(* window timeSeriesData, the summary published in randomResults, the      *)
(* batch runner (generateMultipleRandomPredictions), the manual submission *)
(* (handleSubmit behind the form's validation) and the teardown of the     *)
(* component.                                                              *)
(*                                                                         *)
(* JavaScript handlers run to completion, so every handler is one action.  *)
(* An awaited axios.post is a suspension point: the part of a handler      *)
(* before the await belongs to the action that calls it; the part after    *)
(* it is one action per outcome of the request (a prediction, a response   *)
(* without a prediction, a rejection).                                     *)
(*                                                                         *)
(* Spec is the polling controller alone; SpecLife adds the unmount,        *)
(* SpecBatch the batch runner and SpecSubmit the manual submission.        *)
(* SpecOneShot runs the three one-shot operations (handleSubmit,           *)
(* handleGenerateRandom, the batch) beside a polling session; SpecReply    *)
(* does so with response bodies of every shape and with every explanation  *)
(* the annotator is given; SpecGenerate is generateRandomData alone.       *)
(*                                                                         *)
(* Two specifications state fairness.  SpecBatchLive is the batch runner   *)
(* where the outstanding request eventually resolves; SpecProgress is a    *)
(* session that is never stopped, whose timer keeps firing and whose       *)
(* requests are all answered with a prediction.                            *)
(***************************************************************************)
EXTENDS Integers, Sequences, FiniteSets, TLC

\* ---------------------------------------------------------------- bounds
\* Two families of runs are explored.  A long run fires enough ticks to
\* overflow the window and is otherwise lean; a short run is free in
\* everything else: sessions, labels, failures, overlapping requests.
LongTicks == 22         \* ticks fired in a long run (immediate + timer)
LongMalicious == 1      \* responses labelled "Malicious" in a long run
LongOverlaps == 0       \* ticks of a long run fired while one is in flight
ShortTicks == 4         \* ticks fired in a short run
MaxSessions == 2        \* start() commands in a short run
MaxInFlight == 2        \* requests outstanding at once in a short run
MaxFaults == 1          \* failed or label-less responses in a short run

BatchTicks == 2         \* ticks fired in a run with batches
MaxBatch == 2           \* largest count of a batch beside a polling session
SmallBatch == 5         \* count of a batch run alone, besides BatchCount
MaxBatchFaults == 1     \* failed or label-less responses in one batch
MaxBatches == 2         \* batches started in one run
MaxEdits == 1           \* handleChange events in one run

OneShotTicks == 2       \* ticks fired in a run with every one-shot operation
MaxParts == 2           \* keys and filler words in an explanation

\* ------------------------------------------------------ program constants
WindowCapacity == 20    \* App.js:213  newData.length > 20
PollPeriod == 5000      \* App.js:177  setInterval(..., 5000)
NoTimer == 0            \* App.js:47   useRef(null)
BatchCount == 10        \* App.js:633  generateMultipleRandomPredictions(10)
ConnectError == "Failed to connect to API. Make sure the Flask server is running."

Labels == {"Malicious", "Normal"}

\* the twelve keys of formData
Fields ==
    {"Dst Port", "Flow Duration", "Tot Fwd Pkts", "Tot Bwd Pkts",
     "Flow Byts/s", "Flow Pkts/s", "Pkt Len Max", "Pkt Len Mean",
     "Pkt Len Std", "SYN Flag Cnt", "ACK Flag Cnt", "FIN Flag Cnt"}

\* useState({"Dst Port": "", ...}): every field is the empty string
BlankForm == [f \in Fields |-> ""]

\* what generateRandomData returns: a number for every field
SampleForm == [f \in Fields |-> "sample"]

\* a form the user has filled in completely
TypedForm == [f \in Fields |-> "typed"]

\* ------------------------------------------------------ the annotator
\* An explanation is a sequence of words.  The explanations considered are
\* built from whole keys and filler words, for which the substring search of
\* String.prototype.replace is the search for a run of words.
\* featureLabels, in the order Object.keys enumerates it
featureLabels ==
    << [key |-> <<"Dst", "Port">>, label |-> <<"Destination", "Port">>],
       [key |-> <<"Flow", "Duration">>,
        label |-> <<"Flow", "Duration", "(ms)">>],
       [key |-> <<"Tot", "Fwd", "Pkts">>,
        label |-> <<"Total", "Forward", "Packets">>],
       [key |-> <<"Tot", "Bwd", "Pkts">>,
        label |-> <<"Total", "Backward", "Packets">>],
       [key |-> <<"Flow", "Byts/s">>,
        label |-> <<"Flow", "Bytes", "per", "Second">>],
       [key |-> <<"Flow", "Pkts/s">>,
        label |-> <<"Flow", "Packets", "per", "Second">>],
       [key |-> <<"Pkt", "Len", "Max">>,
        label |-> <<"Packet", "Length", "Maximum">>],
       [key |-> <<"Pkt", "Len", "Mean">>,
        label |-> <<"Packet", "Length", "Mean">>],
       [key |-> <<"Pkt", "Len", "Std">>,
        label |-> <<"Packet", "Length", "Standard", "Deviation">>],
       [key |-> <<"SYN", "Flag", "Cnt">>, label |-> <<"SYN", "Flag", "Count">>],
       [key |-> <<"ACK", "Flag", "Cnt">>, label |-> <<"ACK", "Flag", "Count">>],
       [key |-> <<"FIN", "Flag", "Cnt">>, label |-> <<"FIN", "Flag", "Count">>] >>

\* "No explanation provided."
NoExplanation == <<"No", "explanation", "provided.">>

\* the positions at which key occurs in text
Occurrences(text, key) ==
    {i \in 1..(Len(text) - Len(key) + 1) :
        SubSeq(text, i, i + Len(key) - 1) = key}

\* text contains key
Contains(text, key) == Occurrences(text, key) # {}

\* text.replace(key, label) with a string pattern: the first occurrence of
\* key, if there is one, is replaced
ReplaceFirst(text, key, label) ==
    LET hits == Occurrences(text, key) IN
    IF hits = {} THEN text
    ELSE LET i == CHOOSE h \in hits : \A g \in hits : h <= g
         IN  SubSeq(text, 1, i - 1) \o label
               \o SubSeq(text, i + Len(key), Len(text))

RECURSIVE AnnotateFrom(_, _)
\* the rest of Object.keys(featureLabels).forEach from the k-th key on
AnnotateFrom(reasonText, k) ==
    IF k > Len(featureLabels) THEN reasonText
    ELSE AnnotateFrom(ReplaceFirst(reasonText, featureLabels[k].key,
                                   featureLabels[k].label), k + 1)

\* the filler word of the explanations
Filler == <<"high">>

\* what an explanation is built from: the keys and the filler word
Parts == {featureLabels[k].key : k \in 1..Len(featureLabels)} \cup {Filler}

RECURSIVE Built(_)
\* the explanations built from n parts
Built(n) ==
    IF n = 0 THEN {<<>>}
    ELSE {text \o part : text \in Built(n - 1), part \in Parts}

\* the explanations considered: those of up to MaxParts parts, and the
\* default
Explanations ==
    UNION {Built(n) : n \in 0..MaxParts} \cup {NoExplanation}

\* Object.keys(featureLabels).forEach((key) => { reasonText =
\* reasonText.replace(key, featureLabels[key]) }), as a function of the
\* explanation
Annotate == [text \in Explanations |-> AnnotateFrom(text, 1)]

\* let reasonText = data.reason || "No explanation provided."; then the
\* forEach over the keys.  A reason that is missing or "" is falsy.
ReasonText(data) ==
    Annotate[IF "reason" \in DOMAIN data /\ data.reason # <<>>
             THEN data.reason ELSE NoExplanation]

\* data.confidence || 0, the confidence in hundredths.  A confidence that
\* is missing or 0 is falsy.
Confidence(data) ==
    IF "confidence" \in DOMAIN data /\ data.confidence # 0
    THEN data.confidence ELSE 0

\* no request has resolved yet, or the last one was rejected
NoResponse == [none |-> TRUE]

\* a response body without a prediction
Unlabelled == [error |-> "no prediction"]

\* the one response body of the runs that vary something else: everything
\* but the prediction
PlainReply == [confidence |-> 87, reason |-> Filler]

\* ------------------------------------------------- the sample generator
\* randomRanges
randomRanges ==
    ("Dst Port" :> [min |-> 1, max |-> 65535])
    @@ ("Flow Duration" :> [min |-> 10, max |-> 10000])
    @@ ("Tot Fwd Pkts" :> [min |-> 1, max |-> 100])
    @@ ("Tot Bwd Pkts" :> [min |-> 1, max |-> 100])
    @@ ("Flow Byts/s" :> [min |-> 100, max |-> 100000])
    @@ ("Flow Pkts/s" :> [min |-> 1, max |-> 1000])
    @@ ("Pkt Len Max" :> [min |-> 40, max |-> 1500])
    @@ ("Pkt Len Mean" :> [min |-> 40, max |-> 800])
    @@ ("Pkt Len Std" :> [min |-> 0, max |-> 400])
    @@ ("SYN Flag Cnt" :> [min |-> 0, max |-> 10])
    @@ ("ACK Flag Cnt" :> [min |-> 0, max |-> 20])
    @@ ("FIN Flag Cnt" :> [min |-> 0, max |-> 10])

\* Math.random() returns u with 0 <= u < 1.  u is modelled as a fraction of
\* two digits in base RandomBase, u = (hi * RandomBase + lo) / RandomBase^2,
\* a grid finer than the widest range (RandomBase^2 > 99901), so that every
\* value of every range has a u that yields it.
RandomBase == 1024

\* the values of Math.random() considered: every first digit, with the least
\* and the greatest second digit (Math.floor is monotonic in u, so these
\* bracket what the values between them yield)
Draws ==
    [hi : 0..(RandomBase - 1), lo : {0, RandomBase - 1}]

MinDraw == [hi |-> 0, lo |-> 0]
MaxDraw == [hi |-> RandomBase - 1, lo |-> RandomBase - 1]

\* Math.floor(u * n): (hi * RandomBase + lo) * n \div RandomBase^2, computed
\* digit by digit to stay within 32 bits
FloorTimes(u, n) ==
    (u.hi * n + ((u.lo * n) \div RandomBase)) \div RandomBase

\* generateRandomValue with max + 1 for max - min + 1
generateRandomValueWide(min, max, u) ==
    FloorTimes(u, max + 1) + min

\* generateRandomValue, u being what Math.random() returns
generateRandomValue(min, max, u) ==
    FloorTimes(u, max - min + 1) + min

\* generateRandomData, source[feature] being what Math.random() returns in
\* the call for feature
generateRandomData(source) ==
    [feature \in Fields |->
        generateRandomValue(randomRanges[feature].min,
                            randomRanges[feature].max, source[feature])]

\* the random sources considered: one field draws any value, the others
\* all draw the least or all the greatest value
RandomSources ==
    {[f \in Fields |-> IF f = g THEN d ELSE e] :
        g \in Fields, d \in Draws, e \in {MinDraw, MaxDraw}}

\* the runs in which the numbers drawn are not looked at
NoSource == <<>>
NoData == <<>>

\* ------------------------------------------------------- run profiles
\* a long polling run: enough ticks to overflow the window
LongRun ==
    [ticks |-> LongTicks, sessions |-> 1, malicious |-> LongMalicious,
     faults |-> 0, overlaps |-> LongOverlaps, inflight |-> 2,
     replies |-> {PlainReply}]
ShortRun ==
    [ticks |-> ShortTicks, sessions |-> MaxSessions, malicious |-> ShortTicks,
     faults |-> MaxFaults, overlaps |-> ShortTicks,
     inflight |-> MaxInFlight, replies |-> {PlainReply}]

\* a run with batches of up to MaxBatch items beside a polling session
BatchRun ==
    [ticks |-> BatchTicks, sessions |-> 1, malicious |-> BatchTicks,
     faults |-> 1, overlaps |-> 0, inflight |-> 1,
     counts |-> 1..MaxBatch, batchFaults |-> MaxBatchFaults,
     batches |-> MaxBatches, replies |-> {PlainReply}]
\* a run of one batch of SmallBatch or BatchCount items, nothing else going on
ButtonRun ==
    [ticks |-> 0, sessions |-> 0, malicious |-> 0, faults |-> 0,
     overlaps |-> 0, inflight |-> 0,
     counts |-> {SmallBatch, BatchCount}, batchFaults |-> MaxBatchFaults,
     batches |-> 1, replies |-> {PlainReply}]

\* a run with every one-shot operation beside a polling session
OneShotRun ==
    [ticks |-> OneShotTicks, sessions |-> 1, malicious |-> OneShotTicks,
     faults |-> 1, overlaps |-> 0, inflight |-> 1,
     counts |-> 1..MaxBatch, batchFaults |-> MaxBatchFaults,
     batches |-> 1, replies |-> {PlainReply}]

\* the response bodies that differ in their optional fields: confidence
\* missing, 0 or 0.87; reason missing, "" or an explanation with a key
OptionalFields ==
    {<<>>}
    \cup {[confidence |-> c] : c \in {0, 87}}
    \cup {[reason |-> t] : t \in {<<>>, <<"Dst", "Port">> \o Filler}}
    \cup {[confidence |-> c, reason |-> t] :
            c \in {0, 87}, t \in {<<>>, <<"Dst", "Port">> \o Filler}}

\* a run of two ticks, one batch of one item and one-shot submissions the
\* classifier answers with the optional fields fields
ReplyRun(fields) ==
    [ticks |-> 2, sessions |-> 1, malicious |-> 1, faults |-> 1,
     overlaps |-> 0, inflight |-> 1, counts |-> {1}, batchFaults |-> 1,
     batches |-> 1, replies |-> {fields}]

\* a run of one-shot submissions the classifier answers with the
\* explanation text
AnnotateRun(text) ==
    [ticks |-> 0, sessions |-> 0, malicious |-> 0, faults |-> 0,
     overlaps |-> 0, inflight |-> 0, counts |-> {}, batchFaults |-> 0,
     batches |-> 0, replies |-> {[reason |-> text]}]

\* a run with manual submissions beside a polling session
SubmitRun ==
    [ticks |-> BatchTicks, sessions |-> 1, malicious |-> BatchTicks,
     faults |-> 1, overlaps |-> 0, inflight |-> 1, edits |-> MaxEdits,
     replies |-> {PlainReply}]


VARIABLES
    isContinuous,    \* useState(false): the controller is Running
    timeSeriesData,  \* useState([]): the history window, oldest first
    intervalRef,     \* useRef(null): id of the interval start() scheduled
    timers,          \* intervals the host has scheduled and not cleared
    closure,         \* closure[s]: timeSeriesData as captured by the
                     \* makeContinuousPrediction closure session s runs
    inflight,        \* requests of ticks awaiting their response
    randomResults,   \* useState([]): rows and chartData last published
    prediction,      \* useState("")
    errorMessage,    \* useState("")
    formData,        \* useState({...}): per field "" (blank), "typed" (by
                     \* the user) or "sample" (from generateRandomData)
    ticksFired,      \* number of ticks dispatched so far (tick ids)
    sessions,        \* number of start() commands so far (session ids)
    malicious,       \* number of "Malicious" responses so far
    faults,          \* number of failed or label-less responses so far
    overlaps,        \* number of ticks fired while another was in flight
    appendLog,       \* entries appended since the window was last cleared
    limits,          \* the bounds of this run (LongRun, ShortRun, ...)
    mounted,         \* the App component is mounted
    isLoading,       \* useState(false)
    oneShot,         \* the outstanding request of handleSubmit, or NoRequest
    batch,           \* locals of generateMultipleRandomPredictions: count, i,
                     \* results, maliciousCount, normalCount (and the number
                     \* of the run, the indices that failed, those that
                     \* came back without a prediction and the number of
                     \* requests posted)
    edits,           \* number of handleChange events so far
    randomShot,      \* the outstanding request of handleGenerateRandom, or
                     \* NoRequest
    reason,          \* useState(""): the annotated explanation, as words
    response,        \* response.data the handler that ran last received
    random,          \* what Math.random() returns for each field next
    randomData,      \* what generateRandomData returned last
    effects          \* the last handler (first element) and what it did,
                     \* in program order

vars == <<isContinuous, timeSeriesData, intervalRef, timers, closure,
          inflight, randomResults, prediction, errorMessage, formData,
          ticksFired, sessions, malicious, faults, overlaps, appendLog, limits,
          mounted, isLoading, oneShot, batch, edits, randomShot, reason,
          response, random, randomData, effects>>

\* the state the polling handlers never write
opsVars == <<mounted, isLoading, oneShot, batch, edits>>

\* the state only handleGenerateRandom and generateRandomData write
genVars == <<randomShot, random, randomData>>

\* the state the handling of a response writes
replyVars == <<reason, response>>

\* ------------------------------------------------------------- helpers
RECURSIVE CountLabel(_, _)
\* timeSeriesData.filter(item => item.prediction === label).length
CountLabel(data, label) ==
    IF data = <<>> THEN 0
    ELSE (IF Head(data).prediction = label THEN 1 ELSE 0)
         + CountLabel(Tail(data), label)

\* newData.slice(newData.length - 20)
SliceRecent(newData) ==
    SubSeq(newData, Len(newData) - WindowCapacity + 1, Len(newData))

\* AppendEntry without the capacity check: the window grows without bound
AppendEntryNoEvict(prevData, entry) ==
    Append(prevData, entry)

\* AppendEntry slicing from the wrong end: newData.slice(0, 20)
AppendEntryDropNewest(prevData, entry) ==
    LET newData == Append(prevData, entry)
    IN  IF Len(newData) > WindowCapacity
        THEN SubSeq(newData, 1, WindowCapacity)
        ELSE newData

\* the updater passed to setTimeSeriesData by a successful tick
AppendEntry(prevData, entry) ==
    LET newData == Append(prevData, entry)
    IN  IF Len(newData) > WindowCapacity THEN SliceRecent(newData)
        ELSE newData

\* the value a successful tick passes to setRandomResults: built from the
\* timeSeriesData of the closure the tick runs in
PublishedSummary(data) ==
    [ rows |-> [i \in 1..Len(data) |-> [id |-> i, tick |-> data[i].tick,
                                        prediction |-> data[i].prediction]],
      chartData |-> [Malicious |-> CountLabel(data, "Malicious"),
                     Normal |-> CountLabel(data, "Normal")] ]

NoResults == [rows |-> <<>>, chartData |-> [Malicious |-> 0, Normal |-> 0]]

\* no request of handleSubmit is outstanding
NoRequest == [kind |-> "none", data |-> BlankForm]

\* generateMultipleRandomPredictions is not running and has not run
NoBatch ==
    [run |-> 0, count |-> 0, i |-> 0, results |-> <<>>, maliciousCount |-> 0,
     normalCount |-> 0, failed |-> {}, unlabelled |-> {}, posted |-> 0]

\* makeContinuousPrediction up to its await: generateRandomData,
\* setFormData, axios.post
DispatchTick(s) ==
    /\ ticksFired < limits.ticks
    /\ Cardinality(inflight) < limits.inflight
    /\ inflight # {} => overlaps < limits.overlaps
    /\ overlaps' = IF inflight # {} THEN overlaps + 1 ELSE overlaps
    /\ ticksFired' = ticksFired + 1
    /\ formData' = SampleForm
    /\ inflight' = inflight \cup {[tick |-> ticksFired + 1, sess |-> s]}

\* ---------------------------------------------------------------- Init
\* the state after the first render, but for the form and the bounds
Fresh ==
    /\ isContinuous = FALSE
    /\ timeSeriesData = <<>>
    /\ intervalRef = NoTimer
    /\ timers = {}
    /\ closure = [s \in 1..MaxSessions |-> <<>>]
    /\ inflight = {}
    /\ randomResults = NoResults
    /\ prediction = ""
    /\ errorMessage = ""
    /\ ticksFired = 0
    /\ sessions = 0
    /\ malicious = 0
    /\ faults = 0
    /\ overlaps = 0
    /\ appendLog = <<>>
    /\ mounted = TRUE
    /\ isLoading = FALSE
    /\ oneShot = NoRequest
    /\ batch = NoBatch
    /\ edits = 0
    /\ randomShot = NoRequest
    /\ reason = <<>>
    /\ response = NoResponse
    /\ randomData = NoData
    /\ effects = <<"init">>

Init ==
    /\ Fresh
    /\ random = NoSource
    /\ formData = BlankForm
    /\ limits \in {LongRun, ShortRun}

\* ------------------------------------------------------------- actions
\* Start without setTimeSeriesData([]): the previous window is kept
StartKeepsWindow ==
    /\ mounted
    /\ ~isContinuous
    /\ sessions < limits.sessions
    /\ LET s == sessions + 1 IN
        /\ sessions' = s
        /\ isContinuous' = TRUE
        /\ closure' = [closure EXCEPT ![s] = timeSeriesData]
        /\ DispatchTick(s)
        /\ timers' = timers \cup {[id |-> s, period |-> PollPeriod]}
        /\ intervalRef' = s
    /\ effects' = <<"start", "setIsContinuous(true)",
                    "makeContinuousPrediction", "setInterval">>
    /\ UNCHANGED opsVars
    /\ UNCHANGED replyVars
    /\ UNCHANGED genVars
    /\ UNCHANGED <<limits, timeSeriesData, appendLog, randomResults,
                   prediction, errorMessage, malicious, faults>>

\* toggleContinuousPrediction, else branch: start()
Start ==
    /\ mounted
    /\ ~isContinuous
    /\ sessions < limits.sessions
    /\ LET s == sessions + 1 IN
        /\ sessions' = s
        /\ isContinuous' = TRUE
        /\ timeSeriesData' = <<>>
        /\ appendLog' = <<>>
        /\ closure' = [closure EXCEPT ![s] = timeSeriesData]
        /\ DispatchTick(s)
        /\ timers' = timers \cup {[id |-> s, period |-> PollPeriod]}
        /\ intervalRef' = s
    /\ effects' = <<"start", "setIsContinuous(true)", "setTimeSeriesData([])",
                    "makeContinuousPrediction", "setInterval">>
    /\ UNCHANGED opsVars
    /\ UNCHANGED replyVars
    /\ UNCHANGED genVars
    /\ UNCHANGED <<limits, randomResults, prediction, errorMessage, malicious,
                   faults>>

\* Stop that forgets clearInterval: the interval stays scheduled
StopKeepsTimer ==
    /\ mounted
    /\ isContinuous
    /\ intervalRef' = NoTimer
    /\ isContinuous' = FALSE
    /\ effects' = <<"stop", "setIsContinuous(false)">>
    /\ UNCHANGED opsVars
    /\ UNCHANGED replyVars
    /\ UNCHANGED genVars
    /\ UNCHANGED <<limits, timers, timeSeriesData, closure, inflight,
                   randomResults, prediction, errorMessage, formData,
                   ticksFired, sessions, malicious, faults, overlaps,
                   appendLog>>

\* toggleContinuousPrediction, then branch: stop()
Stop ==
    /\ mounted
    /\ isContinuous
    /\ IF intervalRef # NoTimer
       THEN /\ timers' = {t \in timers : t.id # intervalRef}
            /\ intervalRef' = NoTimer
            /\ effects' = <<"stop", "clearInterval", "setIsContinuous(false)">>
       ELSE /\ UNCHANGED <<timers, intervalRef>>
            /\ effects' = <<"stop", "setIsContinuous(false)">>
    /\ isContinuous' = FALSE
    /\ UNCHANGED opsVars
    /\ UNCHANGED replyVars
    /\ UNCHANGED genVars
    /\ UNCHANGED <<limits, timeSeriesData, closure, inflight, randomResults,
                   prediction, errorMessage, formData, ticksFired, sessions,
                   malicious, faults, overlaps, appendLog>>

\* the host fires a scheduled interval: makeContinuousPrediction up to await
TimerFire(t) ==
    /\ mounted
    /\ t \in timers
    /\ DispatchTick(t.id)
    /\ effects' = <<"timer", "makeContinuousPrediction">>
    /\ UNCHANGED opsVars
    /\ UNCHANGED replyVars
    /\ UNCHANGED genVars
    /\ UNCHANGED <<limits, isContinuous, timeSeriesData, intervalRef, timers,
                   closure, randomResults, prediction, errorMessage, sessions,
                   malicious, faults, appendLog>>

\* TickSuccess that discards the result: everything but setTimeSeriesData
TickSuccessDiscards(r, label) ==
    /\ mounted
    /\ r \in inflight
    /\ label = "Malicious" => malicious < limits.malicious
    /\ malicious' = IF label = "Malicious" THEN malicious + 1 ELSE malicious
    /\ inflight' = inflight \ {r}
    /\ prediction' = label
    /\ errorMessage' = ""
    /\ \E extras \in limits.replies :
        LET data == [prediction |-> label] @@ extras
        IN  /\ response' = data
            /\ reason' = ReasonText(data)
    /\ randomResults' = PublishedSummary(closure[r.sess])
    /\ effects' = <<"tickSuccess", "setPrediction", "setReason",
                    "setErrorMessage('')", "setRandomResults">>
    /\ UNCHANGED opsVars
    /\ UNCHANGED genVars
    /\ UNCHANGED <<limits, isContinuous, intervalRef, timers, closure,
                   formData, ticksFired, sessions, faults, overlaps,
                   timeSeriesData, appendLog>>

\* the request of tick r resolves with a prediction
TickSuccess(r, label) ==
    /\ mounted
    /\ r \in inflight
    /\ label = "Malicious" => malicious < limits.malicious
    /\ malicious' = IF label = "Malicious" THEN malicious + 1 ELSE malicious
    /\ inflight' = inflight \ {r}
    /\ prediction' = label
    /\ errorMessage' = ""
    /\ \E extras \in limits.replies :
        LET data == [prediction |-> label] @@ extras
            reasonText == ReasonText(data)
            entry == [tick |-> r.tick, sess |-> r.sess,
                      prediction |-> data.prediction,
                      confidence |-> Confidence(data),
                      reason |-> reasonText]
        IN  /\ response' = data
            /\ reason' = reasonText
            /\ timeSeriesData' = AppendEntry(timeSeriesData, entry)
            /\ appendLog' = Append(appendLog, entry)
    /\ randomResults' = PublishedSummary(closure[r.sess])
    /\ effects' = <<"tickSuccess", "setPrediction", "setReason",
                    "setErrorMessage('')", "setTimeSeriesData(append)",
                    "setRandomResults">>
    /\ UNCHANGED opsVars
    /\ UNCHANGED genVars
    /\ UNCHANGED <<limits, isContinuous, intervalRef, timers, closure,
                   formData, ticksFired, sessions, faults, overlaps>>

\* the request of tick r resolves with a response that has no prediction
TickNoPrediction(r) ==
    /\ mounted
    /\ r \in inflight
    /\ faults < limits.faults
    /\ faults' = faults + 1
    /\ inflight' = inflight \ {r}
    /\ effects' = <<"tickNoPrediction">>
    /\ UNCHANGED opsVars
    /\ response' = Unlabelled
    /\ UNCHANGED reason
    /\ UNCHANGED genVars
    /\ UNCHANGED <<limits, isContinuous, timeSeriesData, intervalRef, timers,
                   closure, randomResults, prediction, errorMessage, formData,
                   ticksFired, sessions, malicious, overlaps, appendLog>>

\* TickFail that only reports the error and leaves the session running
TickFailKeepsRunning(r) ==
    /\ mounted
    /\ r \in inflight
    /\ faults < limits.faults
    /\ faults' = faults + 1
    /\ inflight' = inflight \ {r}
    /\ errorMessage' = ConnectError
    /\ effects' = <<"tickFail", "setErrorMessage">>
    /\ UNCHANGED opsVars
    /\ response' = NoResponse
    /\ UNCHANGED reason
    /\ UNCHANGED genVars
    /\ UNCHANGED <<limits, isContinuous, timers, intervalRef, timeSeriesData,
                   closure, randomResults, prediction, formData, ticksFired,
                   sessions, malicious, overlaps, appendLog>>

\* the request of tick r is rejected: the catch block
TickFail(r) ==
    /\ mounted
    /\ r \in inflight
    /\ faults < limits.faults
    /\ faults' = faults + 1
    /\ inflight' = inflight \ {r}
    /\ errorMessage' = ConnectError
    /\ IF intervalRef # NoTimer
       THEN /\ timers' = {t \in timers : t.id # intervalRef}
            /\ intervalRef' = NoTimer
            /\ effects' = <<"tickFail", "setErrorMessage", "clearInterval",
                            "setIsContinuous(false)">>
       ELSE /\ UNCHANGED <<timers, intervalRef>>
            /\ effects' = <<"tickFail", "setErrorMessage",
                            "setIsContinuous(false)">>
    /\ isContinuous' = FALSE
    /\ UNCHANGED opsVars
    /\ response' = NoResponse
    /\ UNCHANGED reason
    /\ UNCHANGED genVars
    /\ UNCHANGED <<limits, timeSeriesData, closure, randomResults, prediction,
                   formData, ticksFired, sessions, malicious, overlaps,
                   appendLog>>

Next ==
    \/ Start
    \/ Stop
    \/ \E t \in timers : TimerFire(t)
    \/ \E r \in inflight : \E label \in Labels : TickSuccess(r, label)
    \/ \E r \in inflight : TickNoPrediction(r)
    \/ \E r \in inflight : TickFail(r)

Spec == Init /\ [][Next]_vars

\* the steps of a session that is never stopped and whose requests are all
\* answered with a prediction
NextProgress ==
    \/ Start
    \/ \E t \in timers : TimerFire(t)
    \/ \E r \in inflight : \E label \in Labels : TickSuccess(r, label)

\* the request of tick k resolves with a prediction
Answer(k) ==
    \E r \in inflight : \E label \in Labels :
        r.tick = k /\ TickSuccess(r, label)

\* the host fires the interval as long as it is scheduled, and the
\* classifier answers every request
\* a long session whose requests never overlap
ProgressRun == [LongRun EXCEPT !.overlaps = 0, !.inflight = 1]

\* a long session without overlap, or a short one with overlapping requests
InitProgress ==
    /\ Fresh
    /\ random = NoSource
    /\ formData = BlankForm
    /\ limits \in {ProgressRun, ShortRun}

SpecProgress ==
    /\ InitProgress
    /\ [][NextProgress]_vars
    /\ WF_vars(\E t \in timers : TimerFire(t))
    /\ \A k \in 1..LongTicks : WF_vars(Answer(k))

\* ------------------------------------------------- teardown of the component
\* Unmount whose cleanup does nothing: the interval stays scheduled
UnmountKeepsTimer ==
    /\ mounted
    /\ mounted' = FALSE
    /\ effects' = <<"unmount">>
    /\ UNCHANGED <<isLoading, oneShot, batch, edits>>
    /\ UNCHANGED replyVars
    /\ UNCHANGED genVars
    /\ UNCHANGED <<limits, isContinuous, timeSeriesData, intervalRef, timers,
                   closure, inflight, randomResults, prediction, errorMessage,
                   formData, ticksFired, sessions, malicious, faults,
                   overlaps, appendLog>>

\* the component is unmounted: the cleanup of the useEffect runs
Unmount ==
    /\ mounted
    /\ mounted' = FALSE
    /\ IF intervalRef # NoTimer
       THEN /\ timers' = {t \in timers : t.id # intervalRef}
            /\ effects' = <<"unmount", "clearInterval">>
       ELSE /\ UNCHANGED timers
            /\ effects' = <<"unmount">>
    /\ UNCHANGED <<isLoading, oneShot, batch, edits>>
    /\ UNCHANGED replyVars
    /\ UNCHANGED genVars
    /\ UNCHANGED <<limits, isContinuous, timeSeriesData, intervalRef, closure,
                   inflight, randomResults, prediction, errorMessage,
                   formData, ticksFired, sessions, malicious, faults,
                   overlaps, appendLog>>

\* the request of tick r resolves after the unmount: the state setters of
\* an unmounted component do nothing; the catch block still clears the ref
LateResponse(r, failed) ==
    /\ ~mounted
    /\ r \in inflight
    /\ inflight' = inflight \ {r}
    /\ IF failed /\ intervalRef # NoTimer
       THEN /\ timers' = {t \in timers : t.id # intervalRef}
            /\ intervalRef' = NoTimer
       ELSE UNCHANGED <<timers, intervalRef>>
    /\ effects' = <<"lateResponse">>
    /\ UNCHANGED opsVars
    /\ UNCHANGED replyVars
    /\ UNCHANGED genVars
    /\ UNCHANGED <<limits, isContinuous, timeSeriesData, closure,
                   randomResults, prediction, errorMessage, formData,
                   ticksFired, sessions, malicious, faults, overlaps,
                   appendLog>>

InitLife ==
    /\ Fresh
    /\ random = NoSource
    /\ formData = BlankForm
    /\ limits = ShortRun

NextLife ==
    \/ Next
    \/ Unmount
    \/ \E r \in inflight : \E failed \in BOOLEAN : LateResponse(r, failed)

SpecLife == InitLife /\ [][NextLife]_vars

\* ------------------------------------------ generateMultipleRandomPredictions
\* a request of the batch is outstanding
BatchActive == batch.i < batch.count

\* the rest of the loop after item i has been handled, b being the locals:
\* the next axios.post, or after the last item setRandomResults and
\* setIsLoading(false)
BatchContinue(b) ==
    /\ IF b.i < b.count
       THEN /\ batch' = [b EXCEPT !.posted = @ + 1]
            /\ UNCHANGED <<randomResults, isLoading>>
       ELSE /\ batch' = b
            /\ randomResults' =
                [rows |-> b.results,
                 chartData |-> [Malicious |-> b.maliciousCount,
                                Normal |-> b.normalCount]]
            /\ isLoading' = FALSE

\* the batch button (disabled while isLoading): the function up to its
\* first await
RunBatch(count) ==
    /\ mounted
    /\ ~isLoading
    /\ count \in limits.counts
    /\ batch.run < limits.batches
    /\ isLoading' = TRUE
    /\ batch' = [NoBatch EXCEPT !.count = count, !.run = batch.run + 1,
                                !.posted = 1]
    /\ effects' = <<"runBatch", "setIsLoading(true)", "post">>
    /\ UNCHANGED <<mounted, oneShot, edits, randomResults>>
    /\ UNCHANGED replyVars
    /\ UNCHANGED genVars
    /\ UNCHANGED <<limits, isContinuous, timeSeriesData, intervalRef, timers,
                   closure, inflight, prediction, errorMessage, formData,
                   ticksFired, sessions, malicious, faults, overlaps,
                   appendLog>>

\* BatchItemSuccess that puts the result first: results.unshift(result)
BatchItemSuccessPrepends(label) ==
    /\ mounted
    /\ BatchActive
    /\ \E extras \in limits.replies :
        LET data == [prediction |-> label] @@ extras
            result == [id |-> batch.i + 1, item |-> batch.i + 1,
                       prediction |-> data.prediction,
                       reason |-> ReasonText(data)]
        IN  /\ response' = data
            /\ BatchContinue(
                 [batch EXCEPT
                    !.i = @ + 1,
                    !.results = <<result>> \o @,
                    !.maliciousCount = IF label = "Malicious" THEN @ + 1 ELSE @,
                    !.normalCount = IF label = "Malicious" THEN @ ELSE @ + 1])
    /\ UNCHANGED reason
    /\ effects' = <<"batchItemSuccess", "push">>
    /\ UNCHANGED <<mounted, oneShot, edits>>
    /\ UNCHANGED genVars
    /\ UNCHANGED <<limits, isContinuous, timeSeriesData, intervalRef, timers,
                   closure, inflight, prediction, errorMessage, formData,
                   ticksFired, sessions, malicious, faults, overlaps,
                   appendLog>>

\* BatchItemSuccess that also records the result in the history window
BatchItemSuccessAppends(label) ==
    /\ mounted
    /\ BatchActive
    /\ \E extras \in limits.replies :
        LET data == [prediction |-> label] @@ extras
            result == [id |-> batch.i + 1, item |-> batch.i + 1,
                       prediction |-> data.prediction,
                       reason |-> ReasonText(data)]
        IN  /\ response' = data
            /\ BatchContinue(
                 [batch EXCEPT
                    !.i = @ + 1,
                    !.results = Append(@, result),
                    !.maliciousCount = IF label = "Malicious" THEN @ + 1 ELSE @,
                    !.normalCount = IF label = "Malicious" THEN @ ELSE @ + 1])
            /\ timeSeriesData' =
                 AppendEntry(timeSeriesData,
                             [tick |-> 0, sess |-> 0,
                              prediction |-> data.prediction,
                              confidence |-> Confidence(data),
                              reason |-> ReasonText(data)])
    /\ UNCHANGED reason
    /\ effects' = <<"batchItemSuccess", "push">>
    /\ UNCHANGED <<mounted, oneShot, edits>>
    /\ UNCHANGED genVars
    /\ UNCHANGED <<limits, isContinuous, intervalRef, timers,
                   closure, inflight, prediction, errorMessage, formData,
                   ticksFired, sessions, malicious, faults, overlaps,
                   appendLog>>

\* the request of item i + 1 resolves with a prediction
BatchItemSuccess(label) ==
    /\ mounted
    /\ BatchActive
    /\ \E extras \in limits.replies :
        LET data == [prediction |-> label] @@ extras
            result == [id |-> batch.i + 1, item |-> batch.i + 1,
                       prediction |-> data.prediction,
                       reason |-> ReasonText(data)]
        IN  /\ response' = data
            /\ BatchContinue(
                 [batch EXCEPT
                    !.i = @ + 1,
                    !.results = Append(@, result),
                    !.maliciousCount = IF label = "Malicious" THEN @ + 1 ELSE @,
                    !.normalCount = IF label = "Malicious" THEN @ ELSE @ + 1])
    /\ UNCHANGED reason
    /\ effects' = <<"batchItemSuccess", "push">>
    /\ UNCHANGED <<mounted, oneShot, edits>>
    /\ UNCHANGED genVars
    /\ UNCHANGED <<limits, isContinuous, timeSeriesData, intervalRef, timers,
                   closure, inflight, prediction, errorMessage, formData,
                   ticksFired, sessions, malicious, faults, overlaps,
                   appendLog>>

\* the request of item i + 1 resolves with a response without a prediction
BatchItemNoPrediction ==
    /\ mounted
    /\ BatchActive
    /\ Cardinality(batch.failed \cup batch.unlabelled) < limits.batchFaults
    /\ BatchContinue([batch EXCEPT !.i = @ + 1,
                                   !.unlabelled = @ \cup {batch.i + 1}])
    /\ effects' = <<"batchItemNoPrediction">>
    /\ UNCHANGED <<mounted, oneShot, edits>>
    /\ response' = Unlabelled
    /\ UNCHANGED reason
    /\ UNCHANGED genVars
    /\ UNCHANGED <<limits, isContinuous, timeSeriesData, intervalRef, timers,
                   closure, inflight, prediction, errorMessage, formData,
                   ticksFired, sessions, malicious, faults, overlaps,
                   appendLog>>

\* BatchItemFail that gives up: the catch block returns from the function
BatchItemFailAborts ==
    /\ mounted
    /\ BatchActive
    /\ Cardinality(batch.failed \cup batch.unlabelled) < limits.batchFaults
    /\ errorMessage' = ConnectError
    /\ batch' = [batch EXCEPT !.i = batch.count,
                              !.failed = @ \cup {batch.i + 1}]
    /\ isLoading' = FALSE
    /\ effects' = <<"batchItemFail", "setErrorMessage">>
    /\ UNCHANGED <<mounted, oneShot, edits, randomResults>>
    /\ response' = NoResponse
    /\ UNCHANGED reason
    /\ UNCHANGED genVars
    /\ UNCHANGED <<limits, isContinuous, timeSeriesData, intervalRef, timers,
                   closure, inflight, prediction, formData,
                   ticksFired, sessions, malicious, faults, overlaps,
                   appendLog>>

\* BatchItemFail that tries the item again: the catch block decrements i
BatchItemFailRetries ==
    /\ mounted
    /\ BatchActive
    /\ Cardinality(batch.failed \cup batch.unlabelled) < limits.batchFaults
    /\ errorMessage' = ConnectError
    /\ batch' = [batch EXCEPT !.failed = @ \cup {batch.i + 1},
                              !.posted = @ + 1]
    /\ effects' = <<"batchItemFail", "setErrorMessage">>
    /\ response' = NoResponse
    /\ UNCHANGED reason
    /\ UNCHANGED genVars
    /\ UNCHANGED <<mounted, oneShot, edits, randomResults, isLoading>>
    /\ UNCHANGED <<limits, isContinuous, timeSeriesData, intervalRef, timers,
                   closure, inflight, prediction, formData,
                   ticksFired, sessions, malicious, faults, overlaps,
                   appendLog>>

\* the request of item i + 1 is rejected: the catch block inside the loop
BatchItemFail ==
    /\ mounted
    /\ BatchActive
    /\ Cardinality(batch.failed \cup batch.unlabelled) < limits.batchFaults
    /\ errorMessage' = ConnectError
    /\ BatchContinue([batch EXCEPT !.i = @ + 1,
                                   !.failed = @ \cup {batch.i + 1}])
    /\ effects' = <<"batchItemFail", "setErrorMessage">>
    /\ UNCHANGED <<mounted, oneShot, edits>>
    /\ response' = NoResponse
    /\ UNCHANGED reason
    /\ UNCHANGED genVars
    /\ UNCHANGED <<limits, isContinuous, timeSeriesData, intervalRef, timers,
                   closure, inflight, prediction, formData,
                   ticksFired, sessions, malicious, faults, overlaps,
                   appendLog>>

InitBatch ==
    /\ Fresh
    /\ random = NoSource
    /\ formData = BlankForm
    /\ limits \in {BatchRun, ButtonRun}

NextBatch ==
    \/ Next
    \/ \E count \in limits.counts : RunBatch(count)
    \/ \E label \in Labels : BatchItemSuccess(label)
    \/ BatchItemNoPrediction
    \/ BatchItemFail

SpecBatch == InitBatch /\ [][NextBatch]_vars

\* the outstanding request of the batch resolves, one way or another
BatchResolve ==
    \/ \E label \in Labels : BatchItemSuccess(label)
    \/ BatchItemNoPrediction
    \/ BatchItemFail

\* a batch alone, or a batch beside a polling session
InitBatchLive ==
    /\ Fresh
    /\ random = NoSource
    /\ formData = BlankForm
    /\ limits \in {ButtonRun, OneShotRun}

\* the batch runner where every classification call eventually resolves
SpecBatchLive ==
    InitBatchLive /\ [][NextBatch]_vars /\ WF_vars(BatchResolve)

\* ---------------------------------------------------------- handleSubmit
\* FormValid when the inputs lack the required attribute
FormValidAlways(form) == TRUE

\* the constraint validation of the form: every input is type="number" and
\* required, so its value must be a non-empty numeric string (the value of a
\* number input holding non-numeric text is "")
FormValid(form) == \A f \in Fields : form[f] # ""

\* the user changes the input of field f: handleChange
HandleChange(f, value) ==
    /\ mounted
    /\ edits < limits.edits
    /\ edits' = edits + 1
    /\ formData' = [formData EXCEPT ![f] = value]
    /\ effects' = <<"handleChange", "setFormData">>
    /\ UNCHANGED <<mounted, isLoading, oneShot, batch>>
    /\ UNCHANGED replyVars
    /\ UNCHANGED genVars
    /\ UNCHANGED <<limits, isContinuous, timeSeriesData, intervalRef, timers,
                   closure, inflight, randomResults, prediction, errorMessage,
                   ticksFired, sessions, malicious, faults, overlaps,
                   appendLog>>

\* the submit button (disabled while isLoading) on a form that passes
\* validation: handleSubmit up to its await
Submit ==
    /\ mounted
    /\ ~isLoading
    /\ FormValid(formData)
    /\ isLoading' = TRUE
    /\ oneShot' = [kind |-> "submit", data |-> formData]
    /\ effects' = <<"submit", "setIsLoading(true)", "post">>
    /\ UNCHANGED <<mounted, batch, edits>>
    /\ UNCHANGED replyVars
    /\ UNCHANGED genVars
    /\ UNCHANGED <<limits, isContinuous, timeSeriesData, intervalRef, timers,
                   closure, inflight, randomResults, prediction, errorMessage,
                   formData, ticksFired, sessions, malicious, faults,
                   overlaps, appendLog>>

\* the submit button on a form that fails validation: the browser reports
\* the invalid field and does not fire the submit event
SubmitBlocked ==
    /\ mounted
    /\ ~isLoading
    /\ ~FormValid(formData)
    /\ effects' = <<"submitBlocked">>
    /\ UNCHANGED opsVars
    /\ UNCHANGED replyVars
    /\ UNCHANGED genVars
    /\ UNCHANGED <<limits, isContinuous, timeSeriesData, intervalRef, timers,
                   closure, inflight, randomResults, prediction, errorMessage,
                   formData, ticksFired, sessions, malicious, faults,
                   overlaps, appendLog>>

\* the request of handleSubmit resolves with a prediction
SubmitSuccess(label) ==
    /\ mounted
    /\ oneShot.kind = "submit"
    /\ prediction' = label
    /\ \E extras \in limits.replies :
        LET data == [prediction |-> label] @@ extras
        IN  /\ response' = data
            /\ reason' = ReasonText(data)
    /\ errorMessage' = ""
    /\ isLoading' = FALSE
    /\ oneShot' = NoRequest
    /\ effects' = <<"submitSuccess", "setPrediction", "setReason",
                    "setErrorMessage('')", "setIsLoading(false)">>
    /\ UNCHANGED <<mounted, batch, edits>>
    /\ UNCHANGED genVars
    /\ UNCHANGED <<limits, isContinuous, timeSeriesData, intervalRef, timers,
                   closure, inflight, randomResults, formData, ticksFired,
                   sessions, malicious, faults, overlaps, appendLog>>

\* the request of handleSubmit resolves without a prediction
SubmitNoPrediction ==
    /\ mounted
    /\ oneShot.kind = "submit"
    /\ prediction' = "Unexpected response format"
    /\ isLoading' = FALSE
    /\ oneShot' = NoRequest
    /\ effects' = <<"submitNoPrediction", "setPrediction", "setReason('')",
                    "setIsLoading(false)">>
    /\ UNCHANGED <<mounted, batch, edits>>
    /\ reason' = <<>>
    /\ response' = Unlabelled
    /\ UNCHANGED genVars
    /\ UNCHANGED <<limits, isContinuous, timeSeriesData, intervalRef, timers,
                   closure, inflight, randomResults, errorMessage, formData,
                   ticksFired, sessions, malicious, faults, overlaps,
                   appendLog>>

\* SubmitFail with the catch block of makeContinuousPrediction: it also
\* stops the polling session
SubmitFailStops ==
    /\ mounted
    /\ oneShot.kind = "submit"
    /\ prediction' = "Error making prediction."
    /\ errorMessage' = ConnectError
    /\ timers' = {t \in timers : t.id # intervalRef}
    /\ intervalRef' = NoTimer
    /\ isContinuous' = FALSE
    /\ isLoading' = FALSE
    /\ oneShot' = NoRequest
    /\ effects' = <<"submitFail", "setPrediction", "setReason('')",
                    "setErrorMessage", "clearInterval",
                    "setIsContinuous(false)", "setIsLoading(false)">>
    /\ UNCHANGED <<mounted, batch, edits>>
    /\ reason' = <<>>
    /\ response' = NoResponse
    /\ UNCHANGED genVars
    /\ UNCHANGED <<limits, timeSeriesData, closure, inflight, randomResults,
                   formData, ticksFired, sessions, malicious, faults,
                   overlaps, appendLog>>

\* the request of handleSubmit is rejected: the catch block
SubmitFail ==
    /\ mounted
    /\ oneShot.kind = "submit"
    /\ prediction' = "Error making prediction."
    /\ errorMessage' = ConnectError
    /\ isLoading' = FALSE
    /\ oneShot' = NoRequest
    /\ effects' = <<"submitFail", "setPrediction", "setReason('')",
                    "setErrorMessage", "setIsLoading(false)">>
    /\ UNCHANGED <<mounted, batch, edits>>
    /\ reason' = <<>>
    /\ response' = NoResponse
    /\ UNCHANGED genVars
    /\ UNCHANGED <<limits, isContinuous, timeSeriesData, intervalRef, timers,
                   closure, inflight, randomResults, formData, ticksFired,
                   sessions, malicious, faults, overlaps, appendLog>>

\* the form is blank, or the user has typed a value into every field
InitSubmit ==
    /\ Fresh
    /\ random = NoSource
    /\ formData \in {BlankForm, TypedForm}
    /\ limits = SubmitRun

NextSubmit ==
    \/ Next
    \/ \E f \in Fields : \E value \in {"", "typed"} : HandleChange(f, value)
    \/ Submit
    \/ SubmitBlocked
    \/ \E label \in Labels : SubmitSuccess(label)
    \/ SubmitNoPrediction
    \/ SubmitFail

SpecSubmit == InitSubmit /\ [][NextSubmit]_vars

\* ------------------------------------------------- handleGenerateRandom
\* GenerateRandom when the button is never disabled
GenerateRandomAlways ==
    /\ mounted
    /\ isLoading' = TRUE
    /\ formData' = SampleForm
    /\ randomShot' = [kind |-> "random", data |-> SampleForm]
    /\ effects' = <<"random", "setIsLoading(true)", "setFormData", "post">>
    /\ UNCHANGED <<mounted, oneShot, batch, edits, replyVars, random,
                   randomData>>
    /\ UNCHANGED <<limits, isContinuous, timeSeriesData, intervalRef, timers,
                   closure, inflight, randomResults, prediction, errorMessage,
                   ticksFired, sessions, malicious, faults, overlaps,
                   appendLog>>

\* the random button (disabled while isLoading): handleGenerateRandom up to
\* its await
GenerateRandom ==
    /\ mounted
    /\ ~isLoading
    /\ isLoading' = TRUE
    /\ formData' = SampleForm
    /\ randomShot' = [kind |-> "random", data |-> SampleForm]
    /\ effects' = <<"random", "setIsLoading(true)", "setFormData", "post">>
    /\ UNCHANGED <<mounted, oneShot, batch, edits, replyVars, random,
                   randomData>>
    /\ UNCHANGED <<limits, isContinuous, timeSeriesData, intervalRef, timers,
                   closure, inflight, randomResults, prediction, errorMessage,
                   ticksFired, sessions, malicious, faults, overlaps,
                   appendLog>>

\* the request of handleGenerateRandom resolves with a prediction
RandomSuccess(label) ==
    /\ mounted
    /\ randomShot.kind = "random"
    /\ prediction' = label
    /\ \E extras \in limits.replies :
        LET data == [prediction |-> label] @@ extras
        IN  /\ response' = data
            /\ reason' = ReasonText(data)
    /\ errorMessage' = ""
    /\ isLoading' = FALSE
    /\ randomShot' = NoRequest
    /\ effects' = <<"randomSuccess", "setPrediction", "setReason",
                    "setErrorMessage('')", "setIsLoading(false)">>
    /\ UNCHANGED <<mounted, oneShot, batch, edits, random, randomData>>
    /\ UNCHANGED <<limits, isContinuous, timeSeriesData, intervalRef, timers,
                   closure, inflight, randomResults, formData, ticksFired,
                   sessions, malicious, faults, overlaps, appendLog>>

\* the request of handleGenerateRandom resolves without a prediction: the
\* if has no else, only the finally block runs
RandomNoPrediction ==
    /\ mounted
    /\ randomShot.kind = "random"
    /\ response' = Unlabelled
    /\ isLoading' = FALSE
    /\ randomShot' = NoRequest
    /\ effects' = <<"randomNoPrediction", "setIsLoading(false)">>
    /\ UNCHANGED <<mounted, oneShot, batch, edits, reason, random,
                   randomData>>
    /\ UNCHANGED <<limits, isContinuous, timeSeriesData, intervalRef, timers,
                   closure, inflight, randomResults, prediction, errorMessage,
                   formData, ticksFired, sessions, malicious, faults,
                   overlaps, appendLog>>

\* the request of handleGenerateRandom is rejected: the catch block
RandomFail ==
    /\ mounted
    /\ randomShot.kind = "random"
    /\ prediction' = "Error making prediction."
    /\ reason' = <<>>
    /\ response' = NoResponse
    /\ errorMessage' = ConnectError
    /\ isLoading' = FALSE
    /\ randomShot' = NoRequest
    /\ effects' = <<"randomFail", "setPrediction", "setReason('')",
                    "setErrorMessage", "setIsLoading(false)">>
    /\ UNCHANGED <<mounted, oneShot, batch, edits, random, randomData>>
    /\ UNCHANGED <<limits, isContinuous, timeSeriesData, intervalRef, timers,
                   closure, inflight, randomResults, formData, ticksFired,
                   sessions, malicious, faults, overlaps, appendLog>>

\* every one-shot operation beside a polling session
InitOneShot ==
    /\ Fresh
    /\ random = NoSource
    /\ formData = TypedForm
    /\ limits = OneShotRun

NextOneShot ==
    \/ Next
    \/ \E count \in limits.counts : RunBatch(count)
    \/ \E label \in Labels : BatchItemSuccess(label)
    \/ BatchItemNoPrediction
    \/ BatchItemFail
    \/ Submit
    \/ \E label \in Labels : SubmitSuccess(label)
    \/ SubmitNoPrediction
    \/ SubmitFail
    \/ GenerateRandom
    \/ \E label \in Labels : RandomSuccess(label)
    \/ RandomNoPrediction
    \/ RandomFail

SpecOneShot == InitOneShot /\ [][NextOneShot]_vars

\* the one-shot operations and a polling session answered with response
\* bodies of every shape, or with every explanation
InitReply ==
    /\ Fresh
    /\ random = NoSource
    /\ formData = TypedForm
    /\ limits \in {ReplyRun(fields) : fields \in OptionalFields}
                  \cup {AnnotateRun(text) : text \in Explanations}

SpecReply == InitReply /\ [][NextOneShot]_vars

\* ----------------------------------------------------- generateRandomData
\* generateRandomData is called with the random source drawing random
GenerateRandomData ==
    /\ randomData' = generateRandomData(random)
    /\ effects' = <<"generateRandomData">>
    /\ UNCHANGED <<mounted, isLoading, oneShot, batch, edits, randomShot,
                   replyVars, random>>
    /\ UNCHANGED <<limits, isContinuous, timeSeriesData, intervalRef, timers,
                   closure, inflight, randomResults, prediction, errorMessage,
                   formData, ticksFired, sessions, malicious, faults,
                   overlaps, appendLog>>

InitGenerate ==
    /\ Fresh
    /\ random \in RandomSources
    /\ formData = BlankForm
    /\ limits = ButtonRun

NextGenerate == GenerateRandomData

SpecGenerate == InitGenerate /\ [][NextGenerate]_vars

TypeOK ==
    /\ isContinuous \in BOOLEAN
    /\ Len(timeSeriesData) \in 0..(LongTicks + 1)
    /\ intervalRef \in 0..MaxSessions
    /\ ticksFired \in 0..limits.ticks
\* ------------------------------------------------------------- claims
\* the handler the last step ran
LastHandler == Head(effects)

\* the last n elements of a sequence
LastN(seq, n) == SubSeq(seq, Len(seq) - n + 1, Len(seq))

Min(a, b) == IF a <= b THEN a ELSE b

\* per-label counts of a window, as a Distribution Summary
Distribution(data) ==
    [Malicious |-> CountLabel(data, "Malicious"),
     Normal |-> CountLabel(data, "Normal")]

\* C1: no entry is appended to the History Window in a step taken while
\* the controller is not Running (the result of a tick that resolves after
\* stop() is discarded).
C1_NoAppendWhileIdle ==
    [][~isContinuous => Len(appendLog') <= Len(appendLog)]_vars

\* C2: at most one classification request issued by the Polling Controller
\* is outstanding in any reachable state.
C2_AtMostOneOutstanding == Cardinality(inflight) <= 1

\* C3: the History Window never holds more than 20 entries.
C3_WindowBounded == Len(timeSeriesData) <= WindowCapacity

\* an append has evicted: 21 appends since the clear, the window is full
C3_Witness ==
    /\ LastHandler = "tickSuccess"
    /\ Len(appendLog) = WindowCapacity + 1
    /\ Len(timeSeriesData) = WindowCapacity

\* C4: eviction is FIFO: after k appends since the window was cleared, the
\* window is the last min(k, 20) appended entries in append order.
C4_FifoEviction ==
    timeSeriesData = LastN(appendLog, Min(Len(appendLog), WindowCapacity))

\* after the 21st append the 1st entry is gone and the 2nd is the oldest
C4_Witness ==
    /\ Len(appendLog) = WindowCapacity + 1
    /\ timeSeriesData[1] = appendLog[2]
    /\ \A i \in 1..Len(timeSeriesData) : timeSeriesData[i] # appendLog[1]
    /\ timeSeriesData[WindowCapacity] = appendLog[WindowCapacity + 1]

\* C5: start() from Idle moves the controller to Running, clears the
\* History Window, dispatches one tick at once and schedules the recurring
\* tick with period 5000 ms, in that order.
C5_StartContract ==
    [][(~isContinuous /\ LastHandler' = "start") =>
        /\ isContinuous'
        /\ timeSeriesData' = <<>>
        /\ ticksFired' = ticksFired + 1
        /\ inflight' = inflight \cup {[tick |-> ticksFired', sess |-> sessions']}
        /\ Cardinality(inflight') = Cardinality(inflight) + 1
        /\ timers' = timers \cup {[id |-> intervalRef', period |-> 5000]}
        /\ Cardinality(timers') = Cardinality(timers) + 1
        /\ effects' = <<"start", "setIsContinuous(true)",
                        "setTimeSeriesData([])", "makeContinuousPrediction",
                        "setInterval">>]_vars

\* a second start() has just cleared a window that held entries
C5_Witness ==
    /\ LastHandler = "start"
    /\ isContinuous
    /\ sessions = 2
    /\ closure[2] # <<>>
    /\ timeSeriesData = <<>>

\* C6: stop() from Running moves the controller to Idle and cancels the
\* recurrence at once: no interval stays scheduled, and while the controller
\* is Idle the only step that dispatches a tick is the next start().
C6_StopCancels ==
    [][ /\ (isContinuous /\ LastHandler' = "stop") =>
            /\ ~isContinuous'
            /\ intervalRef' = NoTimer
            /\ timers' = {}
            /\ ticksFired' = ticksFired
            /\ inflight' = inflight
        /\ (~isContinuous /\ ticksFired' # ticksFired) =>
            LastHandler' = "start" ]_vars

\* stop() has just run while a tick's request was still outstanding
C6_Witness ==
    /\ LastHandler = "stop"
    /\ ~isContinuous
    /\ timers = {}
    /\ inflight # {}

\* C7: a tick whose classification fails while the controller is Running
\* moves it to Idle, cancels the recurrence, reports an error and leaves the
\* History Window as it was.
C7_TickFailureStops ==
    [][(isContinuous /\ LastHandler' = "tickFail") =>
        /\ ~isContinuous'
        /\ intervalRef' = NoTimer
        /\ timers' = {}
        /\ errorMessage' = ConnectError
        /\ timeSeriesData' = timeSeriesData]_vars

\* one successful tick, then a failing one: Idle with exactly one entry
C7_Witness ==
    /\ LastHandler = "tickFail"
    /\ ticksFired = 2
    /\ inflight = {}
    /\ ~isContinuous
    /\ timers = {}
    /\ errorMessage = ConnectError
    /\ Len(timeSeriesData) = 1

\* C8: a tick whose response has no prediction field ends the session like
\* a ConnectionError: Idle, recurrence cancelled, an error reported.
C8_NoPredictionStops ==
    [][(isContinuous /\ LastHandler' = "tickNoPrediction") =>
        /\ ~isContinuous'
        /\ timers' = {}
        /\ errorMessage' # ""]_vars

\* C9: the entries of the History Window are in the order their ticks fired.
C9_TickOrder ==
    \A i, j \in 1..Len(timeSeriesData) :
        i < j => timeSeriesData[i].tick < timeSeriesData[j].tick

\* C16: a failing submitOnce reports the error and leaves the History
\* Window and the Polling Controller (Idle/Running, timer) as they were.
C16_SubmitFailureIsLocal ==
    [][LastHandler' = "submitFail" =>
        /\ errorMessage' = ConnectError
        /\ prediction' = "Error making prediction."
        /\ timeSeriesData' = timeSeriesData
        /\ isContinuous' = isContinuous
        /\ intervalRef' = intervalRef
        /\ timers' = timers
        /\ inflight' = inflight]_vars

\* a submission has just failed while a polling session is Running with an
\* entry in the window
C16_Witness ==
    /\ LastHandler = "submitFail"
    /\ errorMessage = ConnectError
    /\ isContinuous
    /\ timers # {}
    /\ timeSeriesData # <<>>

\* C17: a submission of a form with a missing (or non-numeric, hence empty)
\* field dispatches no request and changes nothing, and the data of every
\* request dispatched are the values of the form, none of them missing.
C17_InvalidFormNotSent ==
    [][ /\ ((\E f \in Fields : formData[f] = "")
              /\ LastHandler' \in {"submit", "submitBlocked"}) =>
            /\ oneShot' = NoRequest
            /\ isLoading' = isLoading
            /\ formData' = formData
        /\ LastHandler' = "submit" =>
            /\ oneShot'.data = formData
            /\ \A f \in Fields : oneShot'.data[f] # "" ]_vars

\* a submission has just been refused for a form with one field cleared
C17_Witness ==
    /\ LastHandler = "submitBlocked"
    /\ \E f \in Fields : formData[f] = ""
    /\ \E f \in Fields : formData[f] = "typed"
    /\ oneShot = NoRequest
    /\ ~isLoading

\* C18: stop() is idempotent: a call of the controller's command right after
\* a stop() leaves the controller state, the timer and the History Window
\* as the first stop() left them.
C18_StopTwice ==
    [][(LastHandler = "stop" /\ LastHandler' \in {"start", "stop"}) =>
        /\ isContinuous' = isContinuous
        /\ intervalRef' = intervalRef
        /\ timers' = timers
        /\ timeSeriesData' = timeSeriesData]_vars

\* C19: start() while the controller is Running is a no-op: a call of the
\* controller's command right after a start() leaves it Running, with the
\* same window, no extra tick and the same timer.
C19_StartTwice ==
    [][(LastHandler = "start" /\ LastHandler' \in {"start", "stop"}) =>
        /\ isContinuous' = isContinuous
        /\ timeSeriesData' = timeSeriesData
        /\ ticksFired' = ticksFired
        /\ timers' = timers]_vars

\* C20: no dangling timer: whenever the controller is Idle or the component
\* has been torn down, no interval is scheduled.
C20_NoDanglingTimer ==
    (~isContinuous \/ ~mounted) => timers = {}

\* the component was torn down while a session was Running with a request
\* outstanding, and the interval is gone
C20_Witness ==
    /\ LastHandler = "unmount"
    /\ isContinuous
    /\ inflight # {}
    /\ timers = {}

\* the handlers of generateMultipleRandomPredictions
BatchHandlers ==
    {"runBatch", "batchItemSuccess", "batchItemNoPrediction", "batchItemFail"}

\* the last step was the one that completed a batch
BatchDone == LastHandler \in BatchHandlers /\ batch.i = batch.count

\* the indices for which the published outcome holds an error record
RecordedErrors(outcome) ==
    {outcome.rows[k].id :
        k \in {k \in 1..Len(outcome.rows) :
                 outcome.rows[k].prediction \notin Labels}}

\* C11: a failure on an item of runBatch(n) does not abort the batch: the
\* next item is requested, the failed item is counted in neither bucket,
\* and malicious + normal is the number of successful entries throughout
\* and in the published result.
C11_FailureDoesNotAbort ==
    [][ /\ batch'.maliciousCount + batch'.normalCount = Len(batch'.results)
        /\ LastHandler' = "batchItemFail" =>
            /\ batch'.i = batch.i + 1
            /\ batch'.results = batch.results
            /\ batch'.maliciousCount = batch.maliciousCount
            /\ batch'.normalCount = batch.normalCount
            /\ batch'.i < batch'.count => isLoading'
        /\ (LastHandler' \in BatchHandlers /\ batch'.i = batch'.count) =>
            /\ ~isLoading'
            /\ Len(randomResults'.rows) =
                 batch'.count - Cardinality(batch'.failed \cup batch'.unlabelled)
            /\ randomResults'.chartData.Malicious
                 + randomResults'.chartData.Normal = Len(randomResults'.rows)
      ]_vars

\* runBatch(5) with item 3 failing: 4 entries and counts summing to 4
C11_Witness ==
    /\ BatchDone
    /\ batch.count = 5
    /\ batch.failed = {3}
    /\ batch.unlabelled = {}
    /\ Len(randomResults.rows) = 4
    /\ randomResults.chartData.Malicious + randomResults.chartData.Normal = 4

\* C12: the outcome of a batch holds a recorded error for the index of
\* every item whose classification failed.
C12_FailuresRecordedByIndex ==
    BatchDone => RecordedErrors(randomResults) = batch.failed

\* C13: the entries of a batch are in index order with strictly increasing
\* indices from 1..n; with no failures there are n of them, with indices
\* 1..n, and the bucket counts are the numbers of Malicious and of Normal
\* verdicts.
C13_BatchOrder ==
    BatchDone =>
        LET rows == randomResults.rows IN
        /\ \A k \in 1..Len(rows) : rows[k].id \in 1..batch.count
        /\ \A j, k \in 1..Len(rows) : j < k => rows[j].id < rows[k].id
        /\ (batch.failed \cup batch.unlabelled = {}) =>
            /\ Len(rows) = batch.count
            /\ \A k \in 1..Len(rows) : rows[k].id = k
            /\ randomResults.chartData = Distribution(rows)

\* runBatch(10) with 3 Malicious and 7 Normal verdicts and no failure
C13_Witness ==
    /\ BatchDone
    /\ batch.count = 10
    /\ batch.failed \cup batch.unlabelled = {}
    /\ Len(randomResults.rows) = 10
    /\ randomResults.chartData = [Malicious |-> 3, Normal |-> 7]

\* C14: no step of runBatch changes the History Window.
C14_BatchLeavesWindow ==
    [][LastHandler' \in BatchHandlers =>
        timeSeriesData' = timeSeriesData]_vars

\* a batch with a success and a failure has completed while a polling
\* session is Running and the window holds an entry
C14_Witness ==
    /\ BatchDone
    /\ batch.results # <<>>
    /\ batch.failed # {}
    /\ isContinuous
    /\ timeSeriesData # <<>>

\* C15: once a batch has published its result set, no step other than a
\* step of runBatch changes it.
C15_ResultSetOwned ==
    [][(batch.run > 0 /\ ~BatchActive /\ LastHandler' \notin BatchHandlers) =>
        randomResults' = randomResults]_vars

\* C10: the counts a successful tick publishes are the per-label counts of
\* the History Window including the entry the tick appended.
C10_SummaryMatchesWindow ==
    LastHandler = "tickSuccess" =>
        randomResults.chartData = Distribution(timeSeriesData)

\* the internal field keys that have a display label
MappedKeys == {featureLabels[k].key : k \in 1..Len(featureLabels)}

\* C21: the annotated explanation contains no occurrence of an internal
\* field key that has a display label, whatever explanation built from the
\* keys the classifier sent.
C21_NoKeyLeft ==
    \A key \in MappedKeys : ~Contains(reason, key)

\* the handlers that receive a response without a prediction outside the
\* polling loop
UnlabelledHandlers ==
    {"submitNoPrediction", "randomNoPrediction", "batchItemNoPrediction"}

\* the handler reported something: it set the error message or the
\* prediction text
Reported(e) ==
    \E k \in 1..Len(e) : e[k] \in {"setErrorMessage", "setPrediction"}

\* C22: whenever submitOnce, the random one-shot submission or an item of
\* runBatch receives a response without a prediction, the handler reports
\* an error.
C22_SchemaErrorReported ==
    [][LastHandler' \in UnlabelledHandlers => Reported(effects')]_vars

\* C23: every field of what generateRandomData returns is an integer within
\* the field's range, and the least and the greatest value of the random
\* source yield the two ends of the range.
C23_WithinRange ==
    /\ randomData # NoData =>
        \A f \in Fields :
            randomData[f] \in randomRanges[f].min .. randomRanges[f].max
    /\ \A f \in Fields :
        /\ generateRandomValue(randomRanges[f].min, randomRanges[f].max,
                               MinDraw) = randomRanges[f].min
        /\ generateRandomValue(randomRanges[f].min, randomRanges[f].max,
                               MaxDraw) = randomRanges[f].max

\* one call returned the greatest port and the least of every other field
C23_Witness ==
    /\ LastHandler = "generateRandomData"
    /\ randomData # NoData
    /\ randomData["Dst Port"] = 65535
    /\ randomData["Flow Duration"] = 10
    /\ randomData["Pkt Len Std"] = 0

\* the last element of a sequence
Last(seq) == seq[Len(seq)]

\* the verdict recorded in entry carries the defaults for what data omits
DefaultsApplied(entry, data) ==
    /\ entry.prediction = data.prediction
    /\ "confidence" \in DOMAIN entry
    /\ "confidence" \notin DOMAIN data => entry.confidence = 0
    /\ "reason" \in DOMAIN entry
    /\ "reason" \notin DOMAIN data => entry.reason = NoExplanation

\* C24: a response with a prediction is recorded whether or not it has a
\* confidence and a reason: the tick appends an entry and the batch records
\* a result, with confidence 0 if the response had none and the explanation
\* "No explanation provided." if it had no reason.
C24_DefaultsRecorded ==
    [][ /\ LastHandler' = "tickSuccess" =>
            /\ Len(appendLog') = Len(appendLog) + 1
            /\ DefaultsApplied(Last(timeSeriesData'), response')
        /\ LastHandler' = "batchItemSuccess" =>
            /\ Len(batch'.results) = Len(batch.results) + 1
            /\ DefaultsApplied(Last(batch'.results), response') ]_vars

\* C25: the counts a successful tick publishes are the per-label counts of
\* the History Window as it stood just before the tick's append.
C25_OneTickStale ==
    [][LastHandler' = "tickSuccess" =>
        randomResults'.chartData = Distribution(timeSeriesData)]_vars

\* C26: once a second session has been started, every entry of the History
\* Window of the Running controller comes from a tick of that session.
C26_WindowOfOneSession ==
    (isContinuous /\ sessions > 1) =>
        \A i \in 1..Len(timeSeriesData) : timeSeriesData[i].sess = sessions

\* C27: the failure of a tick fired by an earlier session changes neither
\* the state nor the timer of the session that is Running.
C27_FailureEndsOwnSession ==
    [][\A r \in inflight :
        (isContinuous /\ r.sess # sessions /\ r \notin inflight'
           /\ LastHandler' = "tickFail") =>
            /\ isContinuous'
            /\ intervalRef' = intervalRef
            /\ timers' = timers]_vars

\* C28: the success of a tick of the session that has just auto-stopped on
\* a tick failure leaves the reported error message in place.
C28_ErrorStaysReported ==
    [][\A r \in inflight :
        (LastHandler = "tickFail" /\ r.sess = sessions /\ r \notin inflight'
           /\ LastHandler' = "tickSuccess") =>
            errorMessage' = ConnectError]_vars

\* C29: the steps of the Polling Controller leave a form the user has typed
\* into as it is, and what a submission made while the controller is Running
\* sends is what the user typed.
C29_TickLeavesForm ==
    [][ /\ (LastHandler' \in {"start", "timer"}
              /\ \E f \in Fields : formData[f] = "typed") =>
            formData' = formData
        /\ (isContinuous /\ LastHandler' = "submit") =>
            \A f \in Fields : oneShot'.data[f] = "typed" ]_vars

\* the number of one-shot operations in flight
InFlightOps ==
    (IF oneShot.kind # "none" THEN 1 ELSE 0)
    + (IF randomShot.kind # "none" THEN 1 ELSE 0)
    + (IF BatchActive THEN 1 ELSE 0)

\* the handlers of the Polling Controller
PollingHandlers ==
    {"start", "stop", "timer", "tickSuccess", "tickNoPrediction", "tickFail"}

\* C30: at most one of submitOnce, the random submission and runBatch is in
\* flight, the loading flag is true exactly while one is, and no step of the
\* Polling Controller changes the flag.
C30_OneShotExclusive ==
    /\ [](InFlightOps <= 1 /\ (isLoading <=> InFlightOps = 1))
    /\ [][LastHandler' \in PollingHandlers => isLoading' = isLoading]_vars

\* a tick has resolved while a batch was in flight: the flag is still set
C30_Witness ==
    /\ LastHandler = "tickSuccess"
    /\ BatchActive
    /\ isLoading
    /\ isContinuous
    /\ timeSeriesData # <<>>

\* C31: a batch of n posts its requests one at a time, n of them in all,
\* and, every request resolving, it ends: the result set is published and
\* the loading flag cleared.
C31_BatchTerminates ==
    /\ [](/\ batch.posted <= batch.count
          /\ BatchActive => batch.posted = batch.i + 1
          /\ ~BatchActive => batch.posted = batch.count)
    /\ BatchActive ~>
        (/\ BatchDone
         /\ batch.posted = batch.count
         /\ randomResults.rows = batch.results
         /\ ~isLoading)

\* a batch of BatchCount items with one rejected request has ended after
\* BatchCount requests
C31_Witness ==
    /\ BatchDone
    /\ batch.count = BatchCount
    /\ batch.posted = BatchCount
    /\ batch.failed # {}
    /\ Len(randomResults.rows) = BatchCount - 1
    /\ ~isLoading

\* C32: a session that is not stopped and whose requests are all answered
\* with a prediction stays Running, and the entry of every tick fired is
\* eventually appended to the History Window.
C32_SessionProgresses ==
    /\ [][isContinuous => isContinuous']_vars
    /\ \A k \in 1..LongTicks :
        (\E r \in inflight : r.tick = k)
            ~> (/\ timeSeriesData # <<>>
                /\ Last(timeSeriesData).tick = k
                /\ Last(appendLog).tick = k)

\* 21 ticks have been answered and the session is still Running
C32_Witness ==
    /\ LastHandler = "tickSuccess"
    /\ isContinuous
    /\ timers # {}
    /\ Len(appendLog) = WindowCapacity + 1
    /\ Len(timeSeriesData) = WindowCapacity
    /\ Last(timeSeriesData).tick = WindowCapacity + 1
    /\ inflight = {}

====
